---- MODULE Spec2Model ----
(***************************************************************************)
(* Dendritic growth model (van Pelt): Segment and DendriticTree of         *)
(* model.py.  Segments live in an arena (a sequence of records, indexed    *)
(* from 1); a reference to a segment is its index, None is 0, and a        *)
(* children list that is None is the empty sequence.                       *)
(*                                                                         *)
(* Floating point values are modelled by exact rationals <<num, den>>      *)
(* with den > 0; the exponents S and E are restricted to integers so that  *)
(* math.pow is exact.  A gamma variate is a nondeterministic choice from   *)
(* the sample sets, a uniform variate a choice from Draws.                    *)
(***************************************************************************)
EXTENDS Integers, Sequences, FiniteSets, TLC

\* ------------------------------------------------------------------ bounds
MaxSegs  == 5     \* segments in the arena
MaxBins  == 2     \* largest N_be parameter
MaxGrows == 2     \* grow() calls on one tree
MaxNodes == 5     \* nodes of an imported line-segment tree
MaxRuns  == 3     \* argument sets given to map_with_stats

\* ------------------------------------------------------- inputs enumerated
None == 0
NoArg == -1                                   \* grow(N_be=None, N_e=None)
InitialSamples == {1}                         \* gammavariate(gamma_in, beta_in)
SustainedSamples == {1, 2}                    \* gammavariate(gamma_be, beta_be)
ElongationSamples == {1}                      \* gammavariate(gamma_e, beta_e)
Draws == {<<0, 1>>, <<1, 2>>, <<9, 10>>}      \* random.random() in [0, 1)
GrowthCases == {<<0, 1, 0>>, <<1, 1, 0>>, <<2, 0, 1>>}   \* B, E, S
NeValues == {1}
NbeArgs == {NoArg}                            \* grow()'s N_be argument: the
NeArgs == {NoArg}                             \* callers all write tree.grow()
GammaInputs == {-1, 0, 1}                     \* mean / sd values tried
EdgeLengths == {1, 2}                         \* LineSegment.length

\* -------------------------------------------------------------- rationals
RatMul(a, b) == <<a[1] * b[1], a[2] * b[2]>>
RatAdd(a, b) == <<a[1] * b[2] + b[1] * a[2], a[2] * b[2]>>
\* a / b for b # 0, keeping the denominator positive
RatDiv(a, b) == IF b[1] > 0 THEN <<a[1] * b[2], a[2] * b[1]>>
                ELSE <<-(a[1] * b[2]), -(a[2] * b[1])>>
RatGt(a, b) == a[1] * b[2] > b[1] * a[2]
RatEq(a, b) == a[1] * b[2] = b[1] * a[2]
RatInt(n) == <<n, 1>>

RECURSIVE IntPow(_, _)
IntPow(b, e) == IF e = 0 THEN 1 ELSE b * IntPow(b, e - 1)

\* math.pow(2, k) for an integer k
Pow2(k) == IF k >= 0 THEN <<IntPow(2, k), 1>> ELSE <<1, IntPow(2, -k)>>

\* ------------------------------------------------------------------ state
VARIABLES
    parameters,             \* DendriticTree.parameters
    segments,               \* the arena of Segment objects
    root,                   \* DendriticTree.root
    terminal_segments,      \* DendriticTree.terminal_segments
    intermediate_segments,  \* DendriticTree.intermediate_segments
    pc,                     \* where the caller / grow() stands
    exc,                    \* the exception the last operation raised
    op,                     \* the last operation performed
    grows,                  \* grow() calls made so far
    N_be, N_e,              \* grow()'s effective arguments
    bin,                    \* grow()'s loop variable i
    frozen,                 \* frozenset(self.terminal_segments) of this bin
    todo,                   \* segments the running for loop has yet to visit
    attempts,               \* branch() calls per segment in this bin
    last,                   \* inputs of the last branching_probability()
    imported,               \* what build_dendrite_from_linesegments was given
    sums,                   \* map_with_stats: the merged measures
    runs,                   \* map_with_stats: argument sets consumed
    stats,                  \* map_with_stats: the dict returned
    reported,               \* map_with_stats: the argument set printed
    reports,                \* per key, the runs that reported it and what
    calls,                  \* grow_sustained / grow_only calls per segment
                            \* in the current (or last) grow()
    swept                   \* bins begun by all grow() calls so far

vars == <<parameters, segments, root, terminal_segments, intermediate_segments,
          pc, exc, op, grows, N_be, N_e, bin, frozen, todo, attempts, last,
          imported, sums, runs, stats, reported, reports, calls, swept>>

tree == <<segments, root, terminal_segments, intermediate_segments>>
aggregate == <<sums, runs, stats, reported, reports>>
loop == <<N_be, N_e, bin, frozen, todo, attempts>>

NoLast == [seg |-> None, bin |-> 0, n_i |-> 0, Cinv |-> <<0, 1>>, branched |-> FALSE]
NoAttempts == [s \in 1..MaxSegs |-> 0]
NoCalls == [s \in 1..MaxSegs |-> [sustained |-> 0, t |-> 0, only |-> 0]]
\* nothing was imported
NoImport == [leaves |-> 0, forks |-> 0, wide |-> {}, length |-> 0]

\* ---------------------------------------------------------------- Segment
\* Segment.__init__: the class defaults, then grow_initial()'s length
NewSegment(order, parent, t, len) ==
    [order |-> order, degree |-> 1, parent |-> parent, children |-> <<>>,
     created |-> t, initial_len |-> len, elongated_len |-> 0]

\* random.gammavariate(alpha, beta) raises ValueError unless both are > 0
gammavariate_ok(alpha, beta) == alpha[1] > 0 /\ beta[1] > 0

\* grow_initial(): gammavariate(gamma_in, beta_in) + alpha_in
grow_initial(p, sample) == sample + p.alpha_in

\* total_len
total_len(seg) == seg.initial_len + seg.elongated_len

RECURSIVE SumPow(_, _, _)
SumPow(segs, S, set) ==
    IF set = {} THEN <<0, 1>>
    ELSE LET x == CHOOSE y \in set : TRUE
         IN  RatAdd(Pow2(-S * segs[x].order), SumPow(segs, S, set \ {x}))

\* branching_probability_normalization_constant(), over the terminal set
\* that is current when it is called
normalization_constant(segs, term, p) ==
    RatDiv(SumPow(segs, p.S, term), RatInt(Cardinality(term)))

\* branching_probability(): p_i = 2^(-S*gamma) * B / Cinv / N_be / n_i^E.
\* The caller has checked p.N_be # 0 (otherwise ZeroDivisionError).
branching_probability(segs, term, p, s) ==
    LET Cinv == normalization_constant(segs, term, p)
        n_i == Cardinality(term)
        a == RatMul(Pow2(-p.S * segs[s].order), RatInt(p.B))
        b == RatDiv(a, Cinv)
        c == RatDiv(b, RatInt(p.N_be))
    IN  RatDiv(c, RatInt(IntPow(n_i, p.E)))

\* grow_sustained(t): elongated_len = rate * (t - created - 1)
grow_sustained(seg, p, sample, t) ==
    [seg EXCEPT !.elongated_len = (sample + p.alpha_be) * (t - seg.created - 1)]

\* grow_only(dt): elongated_len += rate * dt
grow_only(seg, p, sample, dt) ==
    [seg EXCEPT !.elongated_len = @ + (sample + p.alpha_e) * dt]

RECURSIVE SumDegree(_, _)
SumDegree(segs, cs) ==
    IF cs = <<>> THEN 0 ELSE segs[Head(cs)].degree + SumDegree(segs, Tail(cs))

\* (variant) update_degree() that does not walk to the parent
update_degree_local(segs, s) ==
    [segs EXCEPT ![s].degree = IF segs[s].children # <<>>
                               THEN SumDegree(segs, segs[s].children) ELSE 1]

\* (variant) update_degree() that counts the children instead of their degrees
RECURSIVE update_degree_count(_, _)
update_degree_count(segs, s) ==
    LET d == IF segs[s].children # <<>> THEN Len(segs[s].children) ELSE 1
        segs1 == [segs EXCEPT ![s].degree = d]
    IN  IF segs[s].parent # None THEN update_degree_count(segs1, segs[s].parent)
        ELSE segs1

\* update_degree(): recompute from the children, then walk to the root
RECURSIVE update_degree(_, _)
update_degree(segs, s) ==
    LET d == IF segs[s].children # <<>> THEN SumDegree(segs, segs[s].children)
             ELSE 1
        segs1 == [segs EXCEPT ![s].degree = d]
    IN  IF segs[s].parent # None THEN update_degree(segs1, segs[s].parent)
        ELSE segs1

\* is_intermediate: len(self.children) == 2
is_intermediate(seg) == Len(seg.children) = 2

\* (variant) partition_asymmetry without math.fabs
partition_asymmetry_signed(segs, s) ==
    LET r == segs[segs[s].children[1]].degree
        t == segs[segs[s].children[2]].degree
    IN  IF is_intermediate(segs[s]) /\ r + t > 2
        THEN <<r - t, r + t - 2>> ELSE <<0, 1>>

\* partition_asymmetry: |r - s| / (r + s - 2) when r + s > 2, else 0
partition_asymmetry(segs, s) ==
    LET r == segs[segs[s].children[1]].degree
        t == segs[segs[s].children[2]].degree
    IN  IF is_intermediate(segs[s]) /\ r + t > 2
        THEN <<IF r >= t THEN r - t ELSE t - r, r + t - 2>> ELSE <<0, 1>>

\* (variant) branch() without its assertion
branch_unchecked(seg) == TRUE

\* branch(): assert(self.children is None)
branch_precondition(seg) == seg.children = <<>>

\* branch(): the draw does not exceed the probability
branches(u, prob) == ~RatGt(u, prob)

\* (variant) branch() that leaves self in terminal_segments
terminal_keeps_self(term, s, kids) == term \cup kids

\* branch(): terminal_segments.remove(self); terminal_segments.update(children)
terminal_after_branch(term, s, kids) == (term \ {s}) \cup kids

\* (variant) branch() that does not record self as intermediate
intermediate_not_added(inter, s) == inter

\* branch(): intermediate_segments.add(self)
intermediate_after_branch(inter, s) == inter \cup {s}

\* Segment.branch(t) on segment s of the tree T = [segments, terminal,
\* intermediate], with the uniform draw u and the gamma samples rate (of
\* grow_sustained) and l0, l1 (of the children's grow_initial).  The result
\* is the tree afterwards, the exception raised and the inputs the
\* probability was computed from.
branch(T, p, s, t, u, rate, l0, l1, old) ==
    LET segs == T.segments
        same(e, l) == [segments |-> segs, terminal |-> T.terminal,
                       intermediate |-> T.intermediate, exc |-> e, last |-> l]
        n_i == Cardinality(T.terminal)
        Cinv == normalization_constant(segs, T.terminal, p)
        obs(b) == [seg |-> s, bin |-> t, n_i |-> n_i, Cinv |-> Cinv, branched |-> b]
    IN  IF ~branch_precondition(segs[s]) THEN same("AssertionError", old)
        ELSE IF p.N_be = 0 THEN same("ZeroDivisionError", old)
        ELSE IF ~branches(u, branching_probability(segs, T.terminal, p, s))
             THEN same("none", obs(FALSE))
        ELSE IF ~gammavariate_ok(p.gamma_be, p.beta_be)
             THEN same("ValueError", obs(FALSE))
        ELSE LET n == Len(segs)
                 grown == [segs EXCEPT ![s] = grow_sustained(segs[s], p, rate, t)]
                 c0 == NewSegment(segs[s].order + 1, s, t, grow_initial(p, l0))
                 c1 == NewSegment(segs[s].order + 1, s, t, grow_initial(p, l1))
                 linked == [(grown \o <<c0, c1>>) EXCEPT ![s].children = <<n + 1, n + 2>>]
             IN  [segments |-> update_degree(linked, s),
                  terminal |-> terminal_after_branch(T.terminal, s, {n + 1, n + 2}),
                  intermediate |-> intermediate_after_branch(T.intermediate, s),
                  exc |-> "none", last |-> obs(TRUE)]

\* ---------------------------------------------------------- DendriticTree
\* The keyword arguments of DendriticTree.__init__
Kwargs(B, E, S, Nbe, Ne, in, be, e) ==
    [B |-> B, E |-> E, S |-> S, N_be |-> Nbe, N_e |-> Ne,
     offset_in |-> in[1], mean_in |-> in[2], sd_in |-> in[3],
     offset_be |-> be[1], mean_be |-> be[2], sd_be |-> be[3],
     offset_e |-> e[1], mean_e |-> e[2], sd_e |-> e[3]]

DefaultTriple == <<0, 1, 1>>

\* beta = sd**2 / mean and gamma = (mean / sd)**2, for mean # 0 and sd # 0
beta_of(mean, sd) == RatDiv(RatInt(sd * sd), RatInt(mean))
gamma_of(mean, sd) == LET q == RatDiv(RatInt(mean), RatInt(sd)) IN RatMul(q, q)

\* the divisions of the dict(...) expression raise ZeroDivisionError
derivation_raises(k) ==
    \/ k.mean_in = 0 \/ k.sd_in = 0
    \/ k.mean_be = 0 \/ k.sd_be = 0
    \/ k.mean_e = 0 \/ k.sd_e = 0

\* self.parameters = dict(...)
derive_parameters(k) ==
    [B |-> k.B, E |-> k.E, S |-> k.S, N_be |-> k.N_be, N_e |-> k.N_e,
     offset_in |-> k.offset_in, mean_in |-> k.mean_in, sd_in |-> k.sd_in,
     alpha_in |-> k.offset_in, beta_in |-> beta_of(k.mean_in, k.sd_in),
     gamma_in |-> gamma_of(k.mean_in, k.sd_in),
     offset_be |-> k.offset_be, mean_be |-> k.mean_be, sd_be |-> k.sd_be,
     alpha_be |-> k.offset_be, beta_be |-> beta_of(k.mean_be, k.sd_be),
     gamma_be |-> gamma_of(k.mean_be, k.sd_be),
     offset_e |-> k.offset_e, mean_e |-> k.mean_e, sd_e |-> k.sd_e,
     alpha_e |-> k.offset_e, beta_e |-> beta_of(k.mean_e, k.sd_e),
     gamma_e |-> gamma_of(k.mean_e, k.sd_e)]

\* DendriticTree.__init__(**k), the root's initial length sampled as len.
\* When it raises there is no tree: parameters then holds the arguments.
Construct(k, len) ==
    /\ grows = 0
    /\ N_be = 0 /\ N_e = 0 /\ bin = 0 /\ frozen = {} /\ todo = {}
    /\ attempts = NoAttempts /\ last = NoLast /\ imported = NoImport
    /\ calls = NoCalls /\ swept = 0
    /\ op = "__init__"
    /\ IF derivation_raises(k)
       THEN /\ parameters = k /\ exc = "ZeroDivisionError" /\ pc = "failed"
            /\ segments = <<>> /\ root = None
            /\ terminal_segments = {} /\ intermediate_segments = {}
       ELSE LET p == derive_parameters(k)
            IN  /\ parameters = p
                /\ IF ~gammavariate_ok(p.gamma_in, p.beta_in)
                   THEN /\ exc = "ValueError" /\ pc = "failed"
                        /\ segments = <<>> /\ root = None
                        /\ terminal_segments = {} /\ intermediate_segments = {}
                   ELSE /\ exc = "none" /\ pc = "idle"
                        /\ segments = <<NewSegment(0, None, 0, grow_initial(p, len))>>
                        /\ root = 1
                        /\ terminal_segments = {1} /\ intermediate_segments = {}

\* Trees built with valid gamma distributions
InitTree ==
    \E g \in GrowthCases, Nbe \in 0..MaxBins, Ne \in NeValues, len \in InitialSamples :
        Construct(Kwargs(g[1], g[2], g[3], Nbe, Ne,
                         DefaultTriple, DefaultTriple, DefaultTriple), len)

\* Trees built with any sign of mean and sd in each gamma distribution
GammaTriples == {<<0, m, sd>> : m \in GammaInputs, sd \in GammaInputs}

InitGammaTree ==
    \E in \in GammaTriples, be \in GammaTriples, e \in GammaTriples,
       len \in InitialSamples :
        Construct(Kwargs(2, 1, 0, 1, 1, in, be, e), len)

\* (variant) a loop over the live set: for terminal in self.terminal_segments
next_todo_live(remaining, s, term) == (remaining \cup term) \ {s}

\* for terminal in frozenset(self.terminal_segments): the segments still to
\* visit after s was visited do not depend on the set as it is now
next_todo(remaining, s, term) == remaining \ {s}

\* grow(N_be, N_e): the defaults, then the head of the first loop
Grow(a_be, a_e) ==
    /\ pc = "idle" /\ grows < MaxGrows
    /\ LET nbe == IF a_be = NoArg THEN parameters.N_be ELSE a_be
           ne == IF a_e = NoArg THEN parameters.N_e ELSE a_e
       IN  /\ N_be' = nbe /\ N_e' = ne
           /\ IF nbe > 0
              THEN /\ pc' = "sweep" /\ frozen' = terminal_segments
                   /\ swept' = swept + 1
              ELSE /\ pc' = "sustain" /\ frozen' = {} /\ UNCHANGED swept
    /\ calls' = NoCalls
    /\ todo' = terminal_segments
    /\ bin' = 0 /\ attempts' = NoAttempts /\ last' = NoLast
    /\ grows' = grows + 1 /\ exc' = "none" /\ op' = "grow"
    /\ UNCHANGED <<parameters, imported, aggregate, tree>>

\* an exception leaves grow(); the loop state is gone
Leave ==
    /\ pc' = "idle" /\ N_be' = 0 /\ N_e' = 0 /\ bin' = 0
    /\ frozen' = {} /\ todo' = {} /\ attempts' = NoAttempts

\* terminal.branch(i), for one terminal of the frozen set
SweepBranch(s, u, rate, l0, l1) ==
    /\ pc = "sweep" /\ s \in todo
    /\ LET T == [segments |-> segments, terminal |-> terminal_segments,
                 intermediate |-> intermediate_segments]
           r == branch(T, parameters, s, bin, u, rate, l0, l1, last)
       IN  /\ Len(r.segments) <= MaxSegs
           /\ segments' = r.segments
           /\ terminal_segments' = r.terminal
           /\ intermediate_segments' = r.intermediate
           /\ exc' = r.exc /\ last' = r.last
           /\ calls' = IF Len(r.segments) > Len(segments)
                       THEN [calls EXCEPT ![s].sustained = @ + 1, ![s].t = bin]
                       ELSE calls
           /\ IF r.exc = "none"
              THEN /\ todo' = next_todo(todo, s, r.terminal)
                   /\ attempts' = [attempts EXCEPT ![s] = @ + 1]
                   /\ UNCHANGED <<pc, N_be, N_e, bin, frozen>>
              ELSE Leave
    /\ op' = "branch"
    /\ UNCHANGED <<parameters, imported, aggregate, root, grows, swept>>

\* (variant) the elongation loop over every segment
elongated_all(term, inter) == term \cup inter

\* for terminal in self.terminal_segments: terminal.grow_only(N_e)
elongated_set(term, inter) == term

\* the for loops' heads: the next bin, the next loop, or the return
NextLoop ==
    /\ pc \in {"sweep", "sustain", "elongate"} /\ todo = {}
    /\ IF pc = "sweep" /\ bin + 1 < N_be
       THEN /\ bin' = bin + 1 /\ frozen' = terminal_segments
            /\ todo' = terminal_segments /\ attempts' = NoAttempts
            /\ swept' = swept + 1
            /\ UNCHANGED <<pc, N_be, N_e>>
       ELSE IF pc = "sweep"
       THEN /\ pc' = "sustain" /\ todo' = terminal_segments
            /\ frozen' = {} /\ attempts' = NoAttempts
            /\ UNCHANGED <<N_be, N_e, bin, swept>>
       ELSE IF pc = "sustain"
       THEN /\ pc' = "elongate"
            /\ todo' = elongated_set(terminal_segments, intermediate_segments)
            /\ UNCHANGED <<N_be, N_e, bin, frozen, attempts, swept>>
       ELSE Leave /\ UNCHANGED swept
    /\ last' = IF pc = "sweep" /\ bin + 1 < N_be THEN last ELSE NoLast
    /\ op' = "loop"
    /\ UNCHANGED <<parameters, imported, aggregate, tree, exc, grows, calls>>

\* terminal.grow_sustained(N_be), for one un-branched terminal
Sustain(s, rate) ==
    /\ pc = "sustain" /\ s \in todo /\ \A x \in todo : s <= x
    /\ IF gammavariate_ok(parameters.gamma_be, parameters.beta_be)
       THEN /\ segments' = [segments EXCEPT
                               ![s] = grow_sustained(@, parameters, rate, N_be)]
            /\ calls' = [calls EXCEPT ![s].sustained = @ + 1, ![s].t = N_be]
            /\ todo' = todo \ {s} /\ exc' = "none"
            /\ UNCHANGED <<pc, N_be, N_e, bin, frozen, attempts>>
       ELSE /\ exc' = "ValueError" /\ Leave /\ UNCHANGED <<segments, calls>>
    /\ op' = "grow_sustained"
    /\ UNCHANGED <<parameters, imported, aggregate, root, terminal_segments,
                   intermediate_segments, grows, last, swept>>

\* terminal.grow_only(N_e), for one terminal
Elongate(s, rate) ==
    /\ pc = "elongate" /\ s \in todo /\ \A x \in todo : s <= x
    /\ IF gammavariate_ok(parameters.gamma_e, parameters.beta_e)
       THEN /\ segments' = [segments EXCEPT
                               ![s] = grow_only(@, parameters, rate, N_e)]
            /\ calls' = [calls EXCEPT ![s].only = @ + 1]
            /\ todo' = todo \ {s} /\ exc' = "none"
            /\ UNCHANGED <<pc, N_be, N_e, bin, frozen, attempts>>
       ELSE /\ exc' = "ValueError" /\ Leave /\ UNCHANGED <<segments, calls>>
    /\ op' = "grow_only"
    /\ UNCHANGED <<parameters, imported, aggregate, root, terminal_segments,
                   intermediate_segments, grows, last, swept>>

\* A caller invokes Segment.branch(t) itself, on a segment that has branched
CallBranch(s, t, u, rate, l0, l1) ==
    /\ pc = "idle" /\ s \in 1..Len(segments)
    /\ segments[s].children # <<>>
    /\ LET T == [segments |-> segments, terminal |-> terminal_segments,
                 intermediate |-> intermediate_segments]
           r == branch(T, parameters, s, t, u, rate, l0, l1, last)
       IN  /\ Len(r.segments) <= MaxSegs
           /\ segments' = r.segments
           /\ terminal_segments' = r.terminal
           /\ intermediate_segments' = r.intermediate
           /\ exc' = r.exc /\ last' = r.last
    /\ op' = "Segment.branch"
    /\ UNCHANGED <<parameters, imported, aggregate, root, pc, grows, loop, calls, swept>>

\* --------------------------------------------- DendriticTree: measures
\* max_order: the largest order among the terminal segments
max_order(segs, term) ==
    CHOOSE m \in {segs[x].order : x \in term} : \A x \in term : segs[x].order <= m

RECURSIVE SumTotalLen(_, _)
SumTotalLen(segs, set) ==
    IF set = {} THEN 0
    ELSE LET x == CHOOSE y \in set : TRUE
         IN  total_len(segs[x]) + SumTotalLen(segs, set \ {x})

\* total_length: the intermediate plus the terminal segments' total_len
total_length(segs, term, inter) == SumTotalLen(segs, inter) + SumTotalLen(segs, term)

RECURSIVE SumAsymmetry(_, _)
SumAsymmetry(segs, set) ==
    IF set = {} THEN <<0, 1>>
    ELSE LET x == CHOOSE y \in set : TRUE
         IN  RatAdd(partition_asymmetry(segs, x), SumAsymmetry(segs, set \ {x}))

\* asymmetry_index: assert(len(intermediate) == len(terminal) - 1)
asymmetry_index_asserted(term, inter) == Cardinality(inter) = Cardinality(term) - 1

\* asymmetry_index: 0 without intermediate segments, else the mean of
\* their partition asymmetries
asymmetry_index(segs, inter) ==
    IF Cardinality(inter) = 0 THEN <<0, 1>>
    ELSE RatDiv(SumAsymmetry(segs, inter), RatInt(Cardinality(inter)))

\* ------------------------------------------------- stats.py: the importer
\* the members of a set of numbers, ascending
RECURSIVE Ascending(_)
Ascending(set) ==
    IF set = {} THEN <<>>
    ELSE LET m == CHOOSE x \in set : \A y \in set : x <= y
         IN  <<m>> \o Ascending(set \ {m})

\* The line-segment trees of at most MaxNodes nodes: node 1 is the root
\* line segment, every other node hangs below an earlier one, and a node
\* may have any number of children.
LineSegmentTrees ==
    UNION {
        { [length |-> len,
           children |-> [i \in 1..n |-> Ascending({j \in 2..n : par[j] = i})]] :
            par \in {f \in [2..n -> 1..n] : \A j \in 2..n : f[j] < j},
            len \in [1..n -> EdgeLengths] }
        : n \in 1..MaxNodes }

\* The input as the claims measure it: the nodes without children, the
\* nodes with two, the nodes with more, the sum of the lengths
LineSegments(ls) == 1..Len(ls.children)
Leaves(ls) == {i \in LineSegments(ls) : Len(ls.children[i]) = 0}
Forks(ls) == {i \in LineSegments(ls) : Len(ls.children[i]) = 2}
Wide(ls) == {i \in LineSegments(ls) : Len(ls.children[i]) > 2}
RECURSIVE SumLength(_, _)
SumLength(ls, i) == IF i = 0 THEN 0 ELSE ls.length[i] + SumLength(ls, i - 1)
Measured(ls) == [leaves |-> Cardinality(Leaves(ls)), forks |-> Cardinality(Forks(ls)),
                 wide |-> Wide(ls), length |-> SumLength(ls, Len(ls.length))]

\* dendrite = DendriticTree(); dendrite.empty()
EmptyDendrite == [segments |-> <<>>, terminal |-> {}, intermediate |-> {},
                  raised |-> FALSE]

\* trace(ls, parent_segment, parent_order, length) of
\* build_dendrite_from_linesegments, on the dendrite D built so far; the
\* result is the dendrite afterwards and the segment returned
\* (variant) trace() that forgets the length of the chain so far
chain_restarted(length, edge) == edge

\* trace(): length += ls.length
chain_length(length, edge) == length + edge

\* (variant) trace() that forks at two or more children
is_fork_or_more(n_children) == n_children >= 2

\* trace(): elif n_children == 2
is_fork(n_children) == n_children = 2

RECURSIVE trace(_, _, _, _, _, _)
trace(ls, node, parent_segment, parent_order, length, D) ==
    LET len == chain_length(length, ls.length[node])
        n_children == Len(ls.children[node])
        id == Len(D.segments) + 1
        segment == [NewSegment(parent_order + 1, parent_segment, 0, len)
                        EXCEPT !.initial_len = len]
    IN  IF D.raised THEN [D |-> D, segment |-> None]
        ELSE IF n_children = 0
        THEN [D |-> [D EXCEPT !.segments = Append(@, segment),
                              !.terminal = @ \cup {id}],
              segment |-> id]
        ELSE IF n_children = 1
        THEN trace(ls, ls.children[node][1], parent_segment, parent_order, len, D)
        ELSE IF is_fork(n_children)
        THEN LET D1 == [D EXCEPT !.segments = Append(@, segment)]
                 r0 == trace(ls, ls.children[node][1], id, segment.order, 0, D1)
                 r1 == trace(ls, ls.children[node][2], id, segment.order, 0, r0.D)
             IN  IF r1.D.raised THEN [D |-> r1.D, segment |-> None]
                 ELSE [D |-> [r1.D EXCEPT
                                 !.segments[id].children = <<r0.segment, r1.segment>>,
                                 !.intermediate = @ \cup {id}],
                       segment |-> id]
        ELSE [D |-> [D EXCEPT !.raised = TRUE], segment |-> None]

\* no tree exists yet
Start ==
    /\ parameters = Kwargs(1, 1, 0, 1, 0, DefaultTriple, DefaultTriple, DefaultTriple)
    /\ segments = <<>> /\ root = None
    /\ terminal_segments = {} /\ intermediate_segments = {}
    /\ pc = "start" /\ exc = "none" /\ op = "none" /\ grows = 0
    /\ N_be = 0 /\ N_e = 0 /\ bin = 0 /\ frozen = {} /\ todo = {}
    /\ attempts = NoAttempts /\ last = NoLast /\ imported = NoImport
    /\ calls = NoCalls /\ swept = 0

\* build_dendrite_from_linesegments(ls), up to its loop over the terminals
Import(ls) ==
    /\ pc = "start"
    /\ LET r == trace(ls, 1, None, 0, 0, EmptyDendrite)
       IN  IF r.D.raised
           THEN /\ exc' = "Exception" /\ pc' = "failed"
                /\ UNCHANGED <<parameters, tree, todo>>
           ELSE /\ parameters' = derive_parameters(parameters)
                /\ segments' = r.D.segments /\ root' = r.segment
                /\ terminal_segments' = r.D.terminal
                /\ intermediate_segments' = r.D.intermediate
                /\ todo' = r.D.terminal
                /\ exc' = "none" /\ pc' = "backfill"
    /\ imported' = Measured(ls)
    /\ op' = "trace"
    /\ UNCHANGED <<grows, N_be, N_e, bin, frozen, attempts, last, aggregate,
                   calls, swept>>

\* segment.update_degree(), for one terminal of the imported tree; after the
\* last one build_dendrite_from_linesegments returns the dendrite
Backfill(s) ==
    /\ pc = "backfill" /\ s \in todo
    /\ segments' = update_degree(segments, s)
    /\ todo' = todo \ {s}
    /\ pc' = IF todo' = {} THEN "imported" ELSE "backfill"
    /\ op' = "update_degree"
    /\ UNCHANGED <<parameters, imported, aggregate, root, terminal_segments,
                   intermediate_segments, exc, grows, N_be, N_e, bin, frozen,
                   attempts, last, calls, swept>>

\* -------------------------------------------- stats.py: map_with_stats
\* A measure is absent, a number or a list; an element of a list is a
\* number or (never made by this code) a list itself.
Number(x) == [nested |-> FALSE, v |-> <<x>>]
Absent == [kind |-> "absent", items |-> <<>>]
Scalar(x) == [kind |-> "scalar", items |-> <<Number(x)>>]
List(xs) == [kind |-> "list", items |-> [i \in 1..Len(xs) |-> Number(xs[i])]]

\* what fn(*args) may return: per key nothing, a number or a list
Keys == {"degree", "terminal_lengths"}
MetricValues == {Absent, Scalar(1), List(<<>>), List(<<1, 2>>)}
Measures == [Keys -> MetricValues]

RECURSIVE Flat(_)
Flat(items) == IF items = <<>> THEN <<>> ELSE Head(items).v \o Flat(Tail(items))

\* add_listified: if not isinstance(x, list): x = [x]
listified(x) == IF x.kind # "list" THEN <<x.items[1]>> ELSE x.items

\* (variant) add_listified that appends y as one element
add_listified_nested(x, y) ==
    [kind |-> "list",
     items |-> Append(listified(x),
                      IF y.kind = "list" THEN [nested |-> TRUE, v |-> Flat(y.items)]
                      ELSE y.items[1])]

\* add_listified(x, y): return x + y, both listified
add_listified(x, y) == [kind |-> "list", items |-> listified(x) \o listified(y)]

\* plucky's merge(a, b, add_listified, recurse_list=False) on two flat
\* dicts: add_listified on the values of a key both have (a list is a leaf,
\* handed over whole), the value itself of a key only one has
merge(a, b) ==
    [k \in Keys |-> IF a[k].kind # "absent" /\ b[k].kind # "absent"
                    THEN add_listified(a[k], b[k])
                    ELSE IF a[k].kind # "absent" THEN a[k] ELSE b[k]]

RECURSIVE SumSeq(_)
SumSeq(xs) == IF xs = <<>> THEN 0 ELSE Head(xs) + SumSeq(Tail(xs))

\* sum(v) raises TypeError for a number and for a list holding lists;
\* statistics.mean / median raise for no data, statistics.stdev for fewer
\* than two data points
cannot_describe(v) ==
    \/ v.kind = "scalar"
    \/ \E i \in 1..Len(v.items) : v.items[i].nested
    \/ Len(v.items) < 2

\* dict(total=sum(v), mean=statistics.mean(v), ...): the total and the mean
describe(v) == [total |-> SumSeq(Flat(v.items)),
                mean |-> <<SumSeq(Flat(v.items)), Len(v.items)>>]

NoStats == [n_samples |-> 0, keys |-> {}, of |-> [k \in Keys |-> [total |-> 0, mean |-> <<0, 1>>]]]

\* map_with_stats has not been called
Unaggregated ==
    /\ sums = [k \in Keys |-> Absent] /\ runs = 0 /\ stats = NoStats
    /\ reported = 0 /\ reports = [k \in Keys |-> <<>>]

\* map_with_stats(fn, argset) is entered: sums = {}
MapStart ==
    /\ parameters = Kwargs(1, 1, 0, 1, 0, DefaultTriple, DefaultTriple, DefaultTriple)
    /\ segments = <<>> /\ root = None
    /\ terminal_segments = {} /\ intermediate_segments = {}
    /\ pc = "mapping" /\ exc = "none" /\ op = "none" /\ grows = 0
    /\ N_be = 0 /\ N_e = 0 /\ bin = 0 /\ frozen = {} /\ todo = {}
    /\ attempts = NoAttempts /\ last = NoLast /\ imported = NoImport
    /\ calls = NoCalls /\ swept = 0
    /\ Unaggregated

\* one turn of "for args in argset": measures = fn(*args), then the merge
Run(measures) ==
    /\ pc = "mapping" /\ runs < MaxRuns
    /\ runs' = runs + 1
    /\ sums' = merge(sums, measures)
    /\ reports' = [k \in Keys |->
                     IF measures[k].kind = "absent" THEN reports[k]
                     ELSE Append(reports[k], [run |-> runs + 1,
                                              list |-> measures[k].kind = "list",
                                              size |-> Len(measures[k].items)])]
    /\ op' = "fn"
    /\ UNCHANGED <<parameters, tree, pc, exc, grows, loop, last, imported,
                   stats, reported, calls, swept>>

\* argset is exhausted: the statistics of every key, or the first failure,
\* which prints argset[0] and raises InvalidModelParam
Reduce ==
    /\ pc = "mapping"
    /\ LET present == {k \in Keys : sums[k].kind # "absent"}
       IN  IF \E k \in present : cannot_describe(sums[k])
           THEN /\ reported' = 1 /\ exc' = "InvalidModelParam"
                /\ pc' = "map_failed" /\ UNCHANGED stats
           ELSE /\ stats' = [n_samples |-> runs, keys |-> present,
                             of |-> [k \in Keys |->
                                       IF k \in present THEN describe(sums[k])
                                       ELSE NoStats.of[k]]]
                /\ pc' = "returned" /\ UNCHANGED <<reported, exc>>
    /\ op' = "reduce"
    /\ UNCHANGED <<parameters, tree, grows, loop, last, imported, sums, runs,
                   reports, calls, swept>>

StatsNext ==
    \/ \E measures \in Measures : Run(measures)
    \/ Reduce

Next ==
    \/ \E a_be \in NbeArgs, a_e \in NeArgs : Grow(a_be, a_e)
    \/ \E s \in todo, u \in Draws, rate \in SustainedSamples,
          l0 \in InitialSamples, l1 \in InitialSamples : SweepBranch(s, u, rate, l0, l1)
    \/ NextLoop
    \/ \E s \in todo, rate \in SustainedSamples : Sustain(s, rate)
    \/ \E s \in todo, rate \in ElongationSamples : Elongate(s, rate)
    \/ \E s \in 1..MaxSegs, t \in 0..MaxBins, u \in Draws, rate \in SustainedSamples,
          l0 \in InitialSamples, l1 \in InitialSamples : CallBranch(s, t, u, rate, l0, l1)
    \/ pc = "start" /\ \E ls \in LineSegmentTrees : Import(ls)
    \/ \E s \in todo : Backfill(s)

\* a tree built by DendriticTree(...), or none yet (the importer builds one)
Init == (InitTree \/ Start) /\ Unaggregated
InitGamma == (InitGammaTree \/ Start) /\ Unaggregated

Spec == Init /\ [][Next]_vars
SpecGamma == InitGamma /\ [][Next]_vars
SpecStats == MapStart /\ [][StatsNext]_vars

\* ================================================================ claims
\* a tree exists and is in the hands of its caller or of grow()
Grown == pc \in {"idle", "sweep", "sustain", "elongate"}

Segs == 1..Len(segments)

\* C1: after construction, after every branch() and after every grow(), the
\* root's degree is the number of terminal segments.
C1_RootDegreeIsTerminalCount ==
    Grown => segments[root].degree = Cardinality(terminal_segments)

\* a branch() of a sweep has just branched a segment below the root
C1_Witness ==
    /\ pc = "sweep" /\ op = "branch" /\ last.branched
    /\ last.seg # root /\ segments[root].degree = 3

\* C2: at all times after initialization there is one intermediate segment
\* less than there are terminal segments (asymmetry_index's assertion).
C2_IntermediateCount ==
    Grown => Cardinality(intermediate_segments) = Cardinality(terminal_segments) - 1

\* a second grow() has returned on a tree with two intermediate segments
C2_Witness ==
    /\ pc = "idle" /\ grows = 2 /\ Cardinality(intermediate_segments) = 2

\* C3: every branch() of a bin computes its probability from the terminal
\* set as it was at the start of that bin (same n_i, same normalization
\* constant), whatever has branched earlier in the bin.
C3_ProbabilityFromBinStart ==
    (pc = "sweep" /\ last.seg # None /\ last.bin = bin)
        => /\ last.n_i = Cardinality(frozen)
           /\ RatEq(last.Cinv, normalization_constant(segments, frozen, parameters))

\* C4: every segment's degree is 1 without children and the sum of its
\* children's degrees with children.
C4_DegreeOfEverySegment ==
    Grown => \A s \in Segs :
                segments[s].degree =
                    IF segments[s].children = <<>> THEN 1
                    ELSE segments[segments[s].children[1]].degree
                         + segments[segments[s].children[2]].degree

\* a segment below the root has branched, beside a sibling that has not
C4_Witness ==
    /\ Grown
    /\ \E s \in Segs : /\ segments[s].parent = root
                       /\ segments[s].children # <<>>
                       /\ segments[root].degree = 3 /\ segments[s].degree = 2

RECURSIVE Subtree(_, _)
Subtree(segs, s) ==
    {s} \cup UNION {Subtree(segs, segs[s].children[i]) : i \in 1..Len(segs[s].children)}

\* C5: in a grown tree and in an imported tree the two sets are disjoint,
\* hold nothing but the segments reachable from the root, and hold each of
\* those once: the childless in terminal_segments, those with two children
\* in intermediate_segments.
C5_SetsPartitionTheTree ==
    (Grown \/ pc = "imported") =>
        /\ terminal_segments \cap intermediate_segments = {}
        /\ terminal_segments \cup intermediate_segments = Subtree(segments, root)
        /\ \A s \in Subtree(segments, root) :
              /\ Len(segments[s].children) \in {0, 2}
              /\ s \in terminal_segments <=> segments[s].children = <<>>
              /\ s \in intermediate_segments <=> Len(segments[s].children) = 2

\* an imported tree with a branch point below a chain of single children
C5_Witness ==
    /\ pc = "imported" /\ Cardinality(intermediate_segments) = 1
    /\ Cardinality(terminal_segments) = 2 /\ segments[root].initial_len > 2

\* C6: in one bin branch() is called exactly once on each segment of the
\* terminal set as it was at the start of the bin, and on no other segment.
C6_OneAttemptPerFrozenTerminal ==
    pc = "sweep" =>
        /\ \A s \in 1..MaxSegs : attempts[s] <= 1 /\ (attempts[s] = 1 => s \in frozen)
        /\ todo = {s \in frozen : attempts[s] = 0}

\* the sweep of a bin is over and a segment has branched during it
C6_Witness ==
    /\ pc = "sweep" /\ todo = {} /\ Cardinality(frozen) = 2
    /\ \E s \in frozen : segments[s].children # <<>> /\ attempts[s] = 1
    /\ \A s \in Segs \ frozen : attempts[s] = 0

\* C7: with B = 0 no draw makes a segment branch: the tree keeps its single
\* segment, of degree 1 and order 0.
C7_NoBranchingWithoutB ==
    (Grown /\ parameters.B = 0)
        => /\ Len(segments) = 1 /\ segments[root].degree = 1
           /\ terminal_segments = {root} /\ intermediate_segments = {}
           /\ segments[root].order = 0

\* some mean or sd of the three gamma distributions is not positive
NonPositiveGamma ==
    \/ parameters.mean_in <= 0 \/ parameters.sd_in <= 0
    \/ parameters.mean_be <= 0 \/ parameters.sd_be <= 0
    \/ parameters.mean_e <= 0 \/ parameters.sd_e <= 0

\* C8: a non-positive mean or sd makes the construction fail; no tree is
\* produced and no later sample is what reports it.
C8_EagerGammaValidation ==
    NonPositiveGamma => pc = "failed" /\ exc # "none" /\ root = None

\* C9: branch() called on a segment that has children raises and changes
\* nothing; the segments grow() calls branch() on never have children.
C9_BranchPrecondition ==
    [][/\ op' = "Segment.branch" => (exc' = "AssertionError" /\ UNCHANGED tree)
       /\ exc' = "AssertionError" => op' = "Segment.branch"
       /\ pc' = "sweep" => \A s \in todo' : segments'[s].children = <<>>]_vars

\* a caller's branch() on an intermediate segment has raised
C9_Witness ==
    /\ op = "Segment.branch" /\ exc = "AssertionError"
    /\ Cardinality(intermediate_segments) = 2

\* C10: no segment's elongated_len is negative.
C10_ElongatedLenNonNegative ==
    \A s \in Segs : segments[s].elongated_len >= 0


\* a tree exists: it was constructed, or the importer has built it
HasTree == pc \notin {"start", "failed"}

InUnitInterval(q) == ~RatGt(<<0, 1>>, q) /\ ~RatGt(q, <<1, 1>>)

\* C11: in every tree state, the partition asymmetry of each intermediate
\* segment lies in [0, 1] and is 0 when both children have degree 1, and
\* the asymmetry index is computed (its assertion holds), lies in [0, 1]
\* and is 0 when there are no intermediate segments.
C11_AsymmetryInUnitInterval ==
    HasTree =>
        /\ \A s \in intermediate_segments :
              /\ InUnitInterval(partition_asymmetry(segments, s))
              /\ (\A c \in 1..2 : segments[segments[s].children[c]].degree = 1)
                    => RatEq(partition_asymmetry(segments, s), <<0, 1>>)
        /\ asymmetry_index_asserted(terminal_segments, intermediate_segments)
        /\ InUnitInterval(asymmetry_index(segments, intermediate_segments))
        /\ intermediate_segments = {}
              => RatEq(asymmetry_index(segments, intermediate_segments), <<0, 1>>)

\* a grown tree whose root splits 2 : 1, so that the index is 1/2
C11_Witness ==
    /\ Grown /\ Cardinality(intermediate_segments) = 2
    /\ \E s \in intermediate_segments :
          RatEq(partition_asymmetry(segments, s), <<1, 1>>)
    /\ RatEq(asymmetry_index(segments, intermediate_segments), <<1, 2>>)

\* C12: in the tree the importer returns, the root's degree is the number
\* of leaf nodes of the input, and every segment's degree is the number of
\* terminal segments below (or at) it, in whatever order the terminals'
\* update_degree() calls were made.
C12_ImportedDegrees ==
    pc = "imported" =>
        /\ segments[root].degree = imported.leaves
        /\ \A s \in Segs :
              segments[s].degree =
                  Cardinality({x \in Subtree(segments, s) : segments[x].children = <<>>})

\* an imported tree of three leaves, after the last update_degree()
C12_Witness ==
    /\ pc = "imported" /\ op = "update_degree"
    /\ imported.leaves = 3 /\ segments[root].degree = 3

\* C13: the importer creates one Segment per leaf and per two-way node of
\* the input and none for the nodes with one child, and the imported
\* tree's total_length is the sum of the input's edge lengths.
C13_ImportedSegmentsAndLength ==
    pc \in {"backfill", "imported"} =>
        /\ Len(segments) = imported.leaves + imported.forks
        /\ Cardinality(terminal_segments) = imported.leaves
        /\ Cardinality(intermediate_segments) = imported.forks
        /\ total_length(segments, terminal_segments, intermediate_segments)
              = imported.length

\* a fork and two leaves whose edges are longer than three edges can be:
\* a chain of one-child nodes was folded into a segment
C13_Witness ==
    /\ pc = "imported" /\ Len(segments) = 3 /\ imported.forks = 1
    /\ imported.length >= 7
    /\ total_length(segments, terminal_segments, intermediate_segments) >= 7

\* C14: when a node of the input has more than two children, wherever it
\* is, the importer raises and there is no tree.
C14_WideNodeRaises ==
    imported.wide # {} =>
        /\ pc = "failed" /\ exc = "Exception"
        /\ root = None /\ segments = <<>>
        /\ terminal_segments = {} /\ intermediate_segments = {}

\* the importer raised for a node with three children below the root
C14_Witness ==
    /\ op = "trace" /\ exc = "Exception" /\ pc = "failed"
    /\ imported.wide # {} /\ 1 \notin imported.wide

\* C15: in every tree, grown or imported, the root segment has order 0 and
\* every other segment has its parent's order plus one.
C15_OrderIsDepth ==
    (Grown \/ pc = "imported") =>
        /\ segments[root].order = 0
        /\ \A s \in Segs : segments[s].parent # None
              => segments[s].order = segments[segments[s].parent].order + 1

\* the keys some run reported
Reported == {k \in Keys : reports[k] # <<>>}

\* C16: map_with_stats never returns without the statistics of a key some
\* run reported; with a single run that reported a number it fails; and
\* when it fails, it fails with InvalidModelParam and the argument set it
\* names is one that reported a key whose statistics cannot be computed.
C16_FailureNamesItsArgumentSet ==
    /\ pc = "returned" => stats.keys = Reported /\ stats.n_samples = runs
    /\ (pc \in {"returned", "map_failed"} /\ runs = 1
          /\ \E k \in Keys : sums[k].kind = "scalar") => pc = "map_failed"
    /\ pc = "map_failed" =>
          /\ exc = "InvalidModelParam"
          /\ \E k \in Reported :
                /\ cannot_describe(sums[k])
                /\ \E i \in 1..Len(reports[k]) : reports[k][i].run = reported

RECURSIVE SumSizes(_)
SumSizes(rs) == IF rs = <<>> THEN 0 ELSE Head(rs).size + SumSizes(Tail(rs))

C18_SegmentLifecycle ==
    [][Grown =>
        /\ Len(segments') >= Len(segments)
        /\ \A s \in 1..Len(segments') \ Segs :
              segments'[s].children = <<>> /\ s \in terminal_segments'
        /\ \A s \in Segs :
              /\ s \in terminal_segments' \cup intermediate_segments'
              /\ segments[s].children # <<>>
                    => /\ segments'[s].children = segments[s].children
                       /\ s \in intermediate_segments' /\ s \notin terminal_segments'
              /\ (segments[s].children = <<>> /\ segments'[s].children # <<>>)
                    => /\ op' \in {"branch", "Segment.branch"}
                       /\ Len(segments'[s].children) = 2
                       /\ Len(segments') = Len(segments) + 2
                       /\ \A i \in 1..2 : segments'[s].children[i] \notin Segs
                       /\ segments'[s].children[1] # segments'[s].children[2]
                       /\ s \in intermediate_segments' /\ s \notin terminal_segments'
    ]_vars

\* in a second grow() a segment other than the root has just branched, and
\* the root still has the children of its own branching
C18_Witness ==
    /\ pc = "sweep" /\ grows = 2 /\ op = "branch" /\ last.branched
    /\ last.seg # root /\ segments[root].children = <<2, 3>>
    /\ segments[last.seg].children # <<>>

\* the first grow() on a constructed tree is running or has returned
FirstGrow == Grown /\ grows = 1
\* ... has returned
FirstGrowReturned == FirstGrow /\ pc = "idle" /\ op \in {"loop", "Segment.branch"}

\* C19: during one grow() on a fresh tree no segment receives more than one
\* grow_sustained call; a segment that branches has received it, with the
\* bin its children were created in; a grow_only call is made only in the
\* last loop, to a terminal segment that has had its grow_sustained; and
\* when grow() returns every segment has received exactly one grow_sustained
\* (with t = N_be if it never branched) and exactly the segments that never
\* branched have received exactly one grow_only.
C19_OneSustainedOneElongation ==
    FirstGrow => \A s \in Segs :
        /\ calls[s].sustained <= 1 /\ calls[s].only <= 1
        /\ segments[s].children # <<>>
              => /\ calls[s].sustained = 1 /\ calls[s].only = 0
                 /\ calls[s].t = segments[segments[s].children[1]].created
        /\ calls[s].only = 1
              => /\ pc \in {"elongate", "idle"} /\ calls[s].sustained = 1
        /\ (calls[s].sustained = 1 /\ segments[s].children = <<>>)
              => /\ pc \in {"sustain", "elongate", "idle"}
                 /\ calls[s].t = parameters.N_be
        /\ FirstGrowReturned
              => /\ calls[s].sustained = 1
                 /\ calls[s].only = (IF segments[s].children = <<>> THEN 1 ELSE 0)

\* grow() has returned from a tree of two branchings and three terminals
C19_Witness ==
    /\ FirstGrowReturned /\ op = "loop" /\ Len(segments) = 5
    /\ \A s \in intermediate_segments : calls[s].sustained = 1 /\ calls[s].only = 0
    /\ \A s \in terminal_segments : calls[s].sustained = 1 /\ calls[s].only = 1
    /\ \E s \in intermediate_segments : calls[s].t = 1

\* C20: in every state reached through grow(), max_order is at most the
\* configured N_be, and during and after bin i of a sweep no segment has an
\* order greater than i + 1.
C20_DepthBoundedByNbe ==
    Grown =>
        /\ max_order(segments, terminal_segments) <= parameters.N_be
        /\ pc = "sweep" => \A s \in Segs : segments[s].order <= bin + 1

\* C20 (amended): no segment's order, and so max_order, exceeds the number
\* of bins begun so far by all the grow() calls made on the tree; for the
\* first grow() that number is i + 1 during bin i and at most N_be.
C20_DepthBoundedByBinsSwept ==
    Grown =>
        /\ \A s \in Segs : segments[s].order <= swept
        /\ max_order(segments, terminal_segments) <= swept
        /\ FirstGrow => /\ swept <= N_be \/ pc = "idle"
                        /\ swept <= parameters.N_be
                        /\ pc = "sweep" => swept = bin + 1

\* the second grow() has taken the tree deeper than N_be
C20_Witness ==
    /\ Grown /\ grows = 2 /\ op = "branch"
    /\ max_order(segments, terminal_segments) = swept
    /\ swept > parameters.N_be

\* C21: growth only adds length: in no step of a branch() or of a grow()
\* call, the first or a later one, does the total_len of an existing
\* segment or the total_length of the tree decrease.
C21_LengthNeverDecreases ==
    [][Grown =>
        /\ \A s \in Segs : total_len(segments'[s]) >= total_len(segments[s])
        /\ total_length(segments', terminal_segments', intermediate_segments')
             >= total_length(segments, terminal_segments, intermediate_segments)
    ]_vars
====
